---------------------------- MODULE Spec2Model ----------------------------
(***************************************************************************)
(* Model of the unifi-route53-dns updater (src/main.go).                   *)
(*                                                                         *)
(* One inbound /nic/update call is a request r: its raw form is parsed by  *)
(* nicUpdateHandler into an UpdateRequest and handed to ProcessIpChange,   *)
(* which validates the IP, looks the host up in AppConfig.Records, updates *)
(* the primary host through the Route53 client, notifies through Pushover  *)
(* and, when the primary update failed, walks the additional hosts.        *)
(*                                                                         *)
(* The remote services are the environment: a Route53 call and a Pushover  *)
(* send each succeed or fail nondeterministically.  trace[r] is what a     *)
(* mock client and a logging hook observe of request r, in program order.  *)
(***************************************************************************)
EXTENDS Integers, Sequences, FiniteSets, TLC

(***************************************************************************)
(* Strings that are inspected character by character (the ip parameter)    *)
(* are sequences of one-character strings; all other strings are atomic.   *)
(***************************************************************************)
DigitChars == <<"0", "1", "2", "3", "4", "5", "6", "7", "8", "9">>

IsDigit(c) == \E k \in 1..10 : DigitChars[k] = c

DigitVal(c) == (CHOOSE k \in 1..10 : DigitChars[k] = c) - 1

HexLower == <<"a", "b", "c", "d", "e", "f">>

HexUpper == <<"A", "B", "C", "D", "E", "F">>

IsHex(c) == IsDigit(c) \/ \E k \in 1..6 : HexLower[k] = c \/ HexUpper[k] = c

HexVal(c) ==
    IF IsDigit(c) THEN DigitVal(c)
    ELSE 9 + (CHOOSE k \in 1..6 : HexLower[k] = c \/ HexUpper[k] = c)

\* The nil net.IP.
NoIP == <<>>

Contains(s, c) == \E k \in 1..Len(s) : s[k] = c

RECURSIVE Join(_)
\* The atomic string spelled by a sequence of one-character strings.
Join(s) == IF s = <<>> THEN "" ELSE Head(s) \o Join(Tail(s))

(***************************************************************************)
(* net.ParseIP, as called by validateIp: netip.ParseAddr followed by       *)
(* As16().  The result is NoIP or a sequence of 16 bytes.                  *)
(***************************************************************************)
RECURSIVE parseIPv4Fields(_, _, _, _, _)
\* s from position i on, with the octet in progress (val, digLen digits)
\* and the octets completed so far (fields).
parseIPv4Fields(s, i, val, digLen, fields) ==
    IF i > Len(s)
    THEN IF Len(fields) < 3 THEN NoIP ELSE Append(fields, val)
    ELSE IF IsDigit(s[i])
    THEN IF digLen = 1 /\ val = 0
         THEN NoIP
         ELSE LET v == val * 10 + DigitVal(s[i])
              IN  IF v > 255 THEN NoIP
                  ELSE parseIPv4Fields(s, i + 1, v, digLen + 1, fields)
    ELSE IF s[i] = "."
    THEN IF i = 1 \/ i = Len(s) \/ s[i - 1] = "."
         THEN NoIP
         ELSE IF Len(fields) = 3 THEN NoIP
         ELSE parseIPv4Fields(s, i + 1, 0, 0, Append(fields, val))
    ELSE NoIP

parseIPv4(s) == parseIPv4Fields(s, 1, 0, 0, <<>>)

RECURSIVE HexRun(_, _, _)
\* The run of hex digits at the head of s: how many, and their value.
HexRun(s, off, acc) ==
    IF off < Len(s) /\ off < 5 /\ IsHex(s[off + 1])
    THEN HexRun(s, off + 1, acc * 16 + HexVal(s[off + 1]))
    ELSE [off |-> off, acc |-> acc]

Zeros(n) == [k \in 1..n |-> 0]

\* The end of parseIPv6: the whole string must be used, and the ellipsis
\* expands to the missing bytes.
finishIPv6(s, ip, ellipsis) ==
    IF Len(s) # 0 THEN NoIP
    ELSE IF Len(ip) < 16
    THEN IF ellipsis < 0 THEN NoIP
         ELSE SubSeq(ip, 1, ellipsis) \o Zeros(16 - Len(ip))
              \o SubSeq(ip, ellipsis + 1, Len(ip))
    ELSE IF ellipsis >= 0 THEN NoIP ELSE ip

RECURSIVE parseIPv6Loop(_, _, _)
\* The next iteration of the loop of parseIPv6, entered with the values of
\* its three variables (and not with the expressions that denote them, which
\* TLC would evaluate again at every use inside ENABLED).
parseIPv6Next(s, ip, ellipsis) ==
    CHOOSE res \in {parseIPv6Loop(a[1], a[2], a[3]) : a \in {<<s, ip, ellipsis>>}} :
        TRUE

\* The loop of parseIPv6: s is the unread rest, ip the bytes written so far
\* (Len(ip) is the loop's i), ellipsis the position of "::" or -1.
parseIPv6Loop(s, ip, ellipsis) ==
    IF Len(ip) >= 16 THEN finishIPv6(s, ip, ellipsis)
    ELSE
    LET h == HexRun(s, 0, 0) IN
    IF h.off > 4 \/ h.off = 0 THEN NoIP
    ELSE IF h.off < Len(s) /\ s[h.off + 1] = "."
    THEN IF ellipsis < 0 /\ Len(ip) # 12 THEN NoIP
         ELSE IF Len(ip) + 4 > 16 THEN NoIP
         ELSE LET v4 == parseIPv4(s)
              IN  IF v4 = NoIP THEN NoIP
                  ELSE finishIPv6(<<>>, ip \o v4, ellipsis)
    ELSE
    LET ip2 == ip \o <<h.acc \div 256, h.acc % 256>>
        s2  == SubSeq(s, h.off + 1, Len(s))
    IN  IF Len(s2) = 0 THEN finishIPv6(s2, ip2, ellipsis)
        ELSE IF s2[1] # ":" THEN NoIP
        ELSE IF Len(s2) = 1 THEN NoIP
        ELSE LET s3 == Tail(s2)
             IN  IF s3[1] = ":"
                 THEN IF ellipsis >= 0 THEN NoIP
                      ELSE IF Len(s3) = 1
                      THEN finishIPv6(<<>>, ip2, Len(ip2))
                      ELSE parseIPv6Next(Tail(s3), ip2, Len(ip2))
                 ELSE parseIPv6Next(s3, ip2, ellipsis)

parseIPv6(s) ==
    IF Contains(s, "%") THEN NoIP          \* ParseIP refuses every zone
    ELSE IF Len(s) >= 2 /\ s[1] = ":" /\ s[2] = ":"
    THEN IF Len(s) = 2 THEN Zeros(16)
         ELSE parseIPv6Loop(SubSeq(s, 3, Len(s)), <<>>, 0)
    ELSE parseIPv6Loop(s, <<>>, -1)

\* The 16-byte form of an IPv4 address (Addr.As16).
V4InV6Prefix == Zeros(10) \o <<255, 255>>

RECURSIVE ParseAddrFrom(_, _)
ParseAddrFrom(s, i) ==
    IF i > Len(s) THEN NoIP
    ELSE IF s[i] = "."
    THEN LET v4 == parseIPv4(s)
         IN  IF v4 = NoIP THEN NoIP ELSE V4InV6Prefix \o v4
    ELSE IF s[i] = ":" THEN parseIPv6(s)
    ELSE IF s[i] = "%" THEN NoIP
    ELSE ParseAddrFrom(s, i + 1)

ParseIP(s) == ParseAddrFrom(s, 1)

\* net.IP.To4: the 4 bytes of an address that is IPv4 or IPv4-mapped.
To4(ip) ==
    IF Len(ip) = 4 THEN ip
    ELSE IF Len(ip) = 16 /\ SubSeq(ip, 1, 12) = V4InV6Prefix
    THEN SubSeq(ip, 13, 16)
    ELSE NoIP

RECURSIVE Itoa(_)
\* Decimal rendering of a natural number.
Itoa(n) ==
    IF n < 10 THEN DigitChars[n + 1]
    ELSE Itoa(n \div 10) \o DigitChars[(n % 10) + 1]

\* net.IP.String of the 4-byte address MakeChangeRequest is given.
IPString(ip) ==
    IF Len(ip) = 0 THEN "<nil>"
    ELSE Itoa(ip[1]) \o "." \o Itoa(ip[2]) \o "." \o Itoa(ip[3]) \o "." \o Itoa(ip[4])


(***************************************************************************)
(* Bounds of the model.                                                    *)
(***************************************************************************)
\* Longest additionalHosts list of the configurations explored.
MaxAdditional == 2

\* Latest reading of the wall clock (time.Now) explored.
MaxTime == 1

\* Longest additionalHosts list explored with two requests in flight.
MaxAdditionalConcurrent == 1

(***************************************************************************)
(* Values.                                                                 *)
(***************************************************************************)
\* The nil error.
Nil == "nil"

ErrInvalidIp == "is not a valid IpV4 address"

ErrRoute53 == "route53: ChangeResourceRecordSets failed"

ErrPushover == "pushover: SendMessage failed"

ErrSyntax == "strconv.ParseBool: invalid syntax"

\* pushover.PriorityNormal
PriorityNormal == 0

\* All sequences over S of length at most n.
SeqsUpTo(S, n) == UNION {[1..k -> S] : k \in 0..n}

\* Hostnames that configurations mention.
ConfigHosts == {"home", "vpn", "nas"}

\* AppConfig.Records as loaded at startup: "home" with any list of
\* additional hosts (repeats and "home" itself included), and "vpn" with a
\* zone and TTL of its own.
Configs ==
    {[h \in {"home", "vpn"} |->
        IF h = "home"
        THEN [ZoneId |-> "Z1", Ttl |-> 300, AdditionalHosts |-> add]
        ELSE [ZoneId |-> "Z2", Ttl |-> 60, AdditionalHosts |-> <<"nas">>]]
     : add \in SeqsUpTo(ConfigHosts, MaxAdditional)}

\* AppConfig.Pushover: configured, or with one credential empty.
PushoverConfigs ==
    {[ApiToken |-> "tok", RecipientKey |-> "usr"],
     [ApiToken |-> "", RecipientKey |-> "usr"],
     [ApiToken |-> "tok", RecipientKey |-> ""]}

\* Values of the hostname parameter: the configured keys, a host that is
\* only ever an additional host, and a key in another letter case.
HostInputs == {"home", "vpn", "nas", "HOME"}

\* Values of the ip parameter.
IpInputs ==
    {<<"1", ".", "2", ".", "3", ".", "4">>,
     <<"2", "0", "3", ".", "0", ".", "1", "1", "3", ".", "5">>,
     <<"2", "5", "6", ".", "1", ".", "1", ".", "1">>,
     <<"1", ".", "2", ".", "3">>,
     <<>>,
     <<"h", "o", "m", "e">>,
     <<":", ":", "1">>,
     <<"2", "0", "0", "1", ":", "d", "b", "8", ":", ":", "1">>,
     <<":", ":", "f", "f", "f", "f", ":", "1", ".", "2", ".", "3", ".", "4">>}

\* Values of req.Form["commit"]: absent, or one value.
CommitInputs == {<<>>, <<"true">>, <<"false">>, <<"yes">>}

Forms == [hostname : HostInputs, ip : IpInputs, commit : CommitInputs]

\* Zero values of the Go types.
ZeroRequest == [Host |-> "", IP |-> <<>>, Commit |-> FALSE]

ZeroHostConfig == [ZoneId |-> "", Ttl |-> 0, AdditionalHosts |-> <<>>]

(***************************************************************************)
(* State.                                                                  *)
(***************************************************************************)
VARIABLES
    records,     \* appConfig.Records
    pushover,    \* appConfig.Pushover
    form,        \* form[r]: the parsed form of inbound call r (req.Form)
    pc,          \* pc[r]: where the handler of r stands
    request,     \* request[r]: updateRequest of nicUpdateHandler
    ip,          \* ip[r]: the ip of ProcessIpChange
    hostConfig,  \* hostConfig[r]: the hostConfig of ProcessIpChange
    err,         \* err[r]: the err of the primary update (line 180)
    addErr,      \* addErr[r]: the err of the additional update (line 186)
    idx,         \* idx[r]: position of the range loop (line 184), from 1
    trace,       \* trace[r]: what the mocks and the log observe of r
    dns,         \* the record sets held by Route53
    arrived,     \* the inbound calls in the order their handlers started
    now          \* the wall clock

vars == <<records, pushover, form, pc, request, ip, hostConfig, err, addErr,
          idx, trace, dns, arrived, now>>

Requests == DOMAIN pc

(***************************************************************************)
(* Pure functions of the program.                                          *)
(***************************************************************************)
\* strconv.ParseBool
ParseBool(str) ==
    IF str \in {"1", "t", "T", "TRUE", "true", "True"}
    THEN [value |-> TRUE, err |-> Nil]
    ELSE IF str \in {"0", "f", "F", "FALSE", "false", "False"}
    THEN [value |-> FALSE, err |-> Nil]
    ELSE [value |-> FALSE, err |-> ErrSyntax]

\* The commitChanges of nicUpdateHandler: true unless the parameter is
\* present, and then the value of ParseBool with its error discarded.
CommitChanges(f) ==
    IF f.commit # <<>> THEN ParseBool(f.commit[1]).value ELSE TRUE

\* The updateRequest nicUpdateHandler builds from the form.
MakeUpdateRequest(f) ==
    [Host |-> f.hostname, IP |-> f.ip, Commit |-> CommitChanges(f)]

\* validateIp without its nil check.
validateIpUnchecked(r) == [ip |-> To4(ParseIP(r.IP)), err |-> Nil]

\* UpdateRequest.validateIp
validateIp(r) ==
    LET v4 == To4(ParseIP(r.IP))
    IN  IF v4 = NoIP THEN [ip |-> NoIP, err |-> ErrInvalidIp]
        ELSE [ip |-> v4, err |-> Nil]

\* A lookup that also finds a host listed as an additional host of an entry.
LookupRecordAnyRole(recs, host) ==
    LET listing == {k \in DOMAIN recs :
                      \E j \in 1..Len(recs[k].AdditionalHosts) :
                         recs[k].AdditionalHosts[j] = host}
    IN  IF host \in DOMAIN recs
        THEN [hostConfig |-> recs[host], exists |-> TRUE]
        ELSE IF listing # {}
        THEN [hostConfig |-> recs[CHOOSE k \in listing : TRUE], exists |-> TRUE]
        ELSE [hostConfig |-> ZeroHostConfig, exists |-> FALSE]

\* appConfig.Records[host]: the comma-ok lookup of line 179.
LookupRecord(recs, host) ==
    IF host \in DOMAIN recs
    THEN [hostConfig |-> recs[host], exists |-> TRUE]
    ELSE [hostConfig |-> ZeroHostConfig, exists |-> FALSE]

\* MakeChangeRequest naming the records without the trailing dot.
MakeChangeRequestNoDot(zoneId, hostname, ipv, ttl, t) ==
    LET lastUpdatedMsg == "\"Last Updated: " \o Itoa(t) \o "\""
    IN  [HostedZoneId |-> zoneId,
         Comment |-> "Unifi Updated IP Address",
         Changes |->
            <<[Action |-> "UPSERT", Name |-> hostname, Type |-> "A",
               TTL |-> ttl, ResourceRecords |-> <<IPString(ipv)>>],
              [Action |-> "UPSERT", Name |-> hostname, Type |-> "TXT",
               TTL |-> ttl, ResourceRecords |-> <<lastUpdatedMsg>>]>>]

\* MakeChangeRequest with the type of the first record copied to the second.
MakeChangeRequestBothA(zoneId, hostname, ipv, ttl, t) ==
    LET resourceHostName == hostname \o "."
        lastUpdatedMsg == "\"Last Updated: " \o Itoa(t) \o "\""
    IN  [HostedZoneId |-> zoneId,
         Comment |-> "Unifi Updated IP Address",
         Changes |->
            <<[Action |-> "UPSERT", Name |-> resourceHostName, Type |-> "A",
               TTL |-> ttl, ResourceRecords |-> <<IPString(ipv)>>],
              [Action |-> "UPSERT", Name |-> resourceHostName, Type |-> "A",
               TTL |-> ttl, ResourceRecords |-> <<lastUpdatedMsg>>]>>]

\* MakeChangeRequest, with t the reading of time.Now.
MakeChangeRequest(zoneId, hostname, ipv, ttl, t) ==
    LET resourceHostName == hostname \o "."
        lastUpdatedMsg == "\"Last Updated: " \o Itoa(t) \o "\""
    IN  [HostedZoneId |-> zoneId,
         Comment |-> "Unifi Updated IP Address",
         Changes |->
            <<[Action |-> "UPSERT", Name |-> resourceHostName, Type |-> "A",
               TTL |-> ttl, ResourceRecords |-> <<IPString(ipv)>>],
              [Action |-> "UPSERT", Name |-> resourceHostName, Type |-> "TXT",
               TTL |-> ttl, ResourceRecords |-> <<lastUpdatedMsg>>]>>]

\* The message NotifyPushover composes.
NotifyMessage(host, e) ==
    [Message |-> IF e # Nil THEN "Error: IP Update Failed for: " \o host
                 ELSE "IP Updated for: " \o host,
     Priority |-> PriorityNormal]

\* Route53 applying a change batch of upserts to its record sets.
RecordKey(input, c) == <<input.HostedZoneId, c.Name, c.Type>>

ApplyChanges(d, input) ==
    LET n == Len(input.Changes)
        keys == {RecordKey(input, input.Changes[k]) : k \in 1..n}
        last(key) == CHOOSE k \in 1..n :
                        /\ RecordKey(input, input.Changes[k]) = key
                        /\ \A j \in (k + 1)..n :
                              RecordKey(input, input.Changes[j]) # key
    IN  [key \in DOMAIN d \cup keys |->
            IF key \in keys
            THEN [TTL |-> input.Changes[last(key)].TTL,
                  ResourceRecords |-> input.Changes[last(key)].ResourceRecords]
            ELSE d[key]]

(***************************************************************************)
(* Events of trace[r].                                                     *)
(***************************************************************************)
LogEvent(msg) == [kind |-> "log", msg |-> msg]

BuildEvent(input) == [kind |-> "build", input |-> input]

CallEvent(input, e) == [kind |-> "call", input |-> input, err |-> e]

NotifyEvent(host, e) == [kind |-> "notify", host |-> host, err |-> e]

SendEvent(token, recipient, message, e) ==
    [kind |-> "send", token |-> token, recipient |-> recipient,
     message |-> message, err |-> e]

(***************************************************************************)
(* Initial states: the configuration loaded at startup, no record sets at  *)
(* Route53 yet, and one inbound call whose handler has parsed its form.    *)
(***************************************************************************)
InitRequests(R) ==
    /\ pc = [r \in R |-> "start"]
    /\ request = [r \in R |-> ZeroRequest]
    /\ ip = [r \in R |-> NoIP]
    /\ hostConfig = [r \in R |-> ZeroHostConfig]
    /\ err = [r \in R |-> Nil]
    /\ addErr = [r \in R |-> Nil]
    /\ idx = [r \in R |-> 0]
    /\ trace = [r \in R |-> <<>>]
    /\ arrived = <<>>

InitService ==
    /\ records \in Configs
    /\ pushover \in PushoverConfigs
    /\ dns = [key \in {} |-> 0]
    /\ now = 0

Init ==
    /\ InitService
    /\ form \in [{1} -> Forms]
    /\ InitRequests({1})

(***************************************************************************)
(* The calls ProcessIpChange makes.                                        *)
(***************************************************************************)
\* Errors client.ChangeResourceRecordSets can return.
Route53Outcomes == {Nil, ErrRoute53}

\* Errors app.SendMessage can return.
PushoverOutcomes == {Nil, ErrPushover}

\* UpdateRoute53Record sending the change whatever the commit flag.
UpdateRoute53RecordAlwaysSends(r, hc, hostname, ipv, commit, t, e) ==
    LET input == MakeChangeRequest(hc.ZoneId, hostname, ipv, hc.Ttl, t)
    IN  /\ now' = t
        /\ trace' = [trace EXCEPT ![r] =
                        @ \o <<BuildEvent(input), CallEvent(input, e)>>]
        /\ dns' = IF e = Nil THEN ApplyChanges(dns, input) ELSE dns

\* UpdateRoute53Record returning an error of Route53 without having called.
UpdateRoute53RecordDryRunFails(r, hc, hostname, ipv, commit, t, e) ==
    LET input == MakeChangeRequest(hc.ZoneId, hostname, ipv, hc.Ttl, t)
    IN  /\ now' = t
        /\ IF commit
           THEN /\ trace' = [trace EXCEPT ![r] =
                                @ \o <<BuildEvent(input), CallEvent(input, e)>>]
                /\ dns' = IF e = Nil THEN ApplyChanges(dns, input) ELSE dns
           ELSE /\ trace' = [trace EXCEPT ![r] = Append(@, BuildEvent(input))]
                /\ dns' = dns

\* UpdateRoute53Record for request r, returning e: the change is built with
\* the clock reading t and, when commit is set, sent to Route53, whose
\* answer e is the result; without commit the result is nil.
UpdateRoute53Record(r, hc, hostname, ipv, commit, t, e) ==
    LET input == MakeChangeRequest(hc.ZoneId, hostname, ipv, hc.Ttl, t)
    IN  /\ now' = t
        /\ IF commit
           THEN /\ trace' = [trace EXCEPT ![r] =
                                @ \o <<BuildEvent(input), CallEvent(input, e)>>]
                /\ dns' = IF e = Nil THEN ApplyChanges(dns, input) ELSE dns
           ELSE /\ e = Nil
                /\ trace' = [trace EXCEPT ![r] = Append(@, BuildEvent(input))]
                /\ dns' = dns

\* NotifyPushover skipping the send only when both credentials are empty.
NotifyPushoverBothEmpty(r, cfg, host, e, sendErr) ==
    IF cfg.ApiToken = "" /\ cfg.RecipientKey = ""
    THEN /\ sendErr = Nil
         /\ trace' = [trace EXCEPT ![r] =
                         @ \o <<NotifyEvent(host, e),
                                LogEvent("Pushover notification not configured.")>>]
    ELSE trace' = [trace EXCEPT ![r] =
                      @ \o <<NotifyEvent(host, e),
                             SendEvent(cfg.ApiToken, cfg.RecipientKey,
                                       NotifyMessage(host, e), sendErr)>>]

\* NotifyPushover for request r about host with the update's error e;
\* sendErr is what app.SendMessage returns when the message is sent.
NotifyPushover(r, cfg, host, e, sendErr) ==
    IF cfg.ApiToken = "" \/ cfg.RecipientKey = ""
    THEN /\ sendErr = Nil
         /\ trace' = [trace EXCEPT ![r] =
                         @ \o <<NotifyEvent(host, e),
                                LogEvent("Pushover notification not configured.")>>]
    ELSE trace' = [trace EXCEPT ![r] =
                      @ \o <<NotifyEvent(host, e),
                             SendEvent(cfg.ApiToken, cfg.RecipientKey,
                                       NotifyMessage(host, e), sendErr)>>]

\* Where the range loop of line 184 stands with position i.
LoopHead(hc, i) ==
    IF i <= Len(hc.AdditionalHosts) THEN "updateAdditional" ELSE "done"

(***************************************************************************)
(* The steps of one request.                                               *)
(***************************************************************************)
\* nicUpdateHandler up to its call of ProcessIpChange.
Handle(r) ==
    /\ pc[r] = "start"
    /\ request' = [request EXCEPT ![r] = MakeUpdateRequest(form[r])]
    /\ pc' = [pc EXCEPT ![r] = "validateIp"]
    /\ arrived' = Append(arrived, r)
    /\ UNCHANGED <<records, pushover, form, ip, hostConfig, err, addErr, idx,
                   trace, dns, now>>

\* ProcessIpChange, lines 173-177.
ValidateIp(r) ==
    /\ pc[r] = "validateIp"
    /\ LET res == validateIp(request[r])
       IN  IF res.err # Nil
           THEN /\ trace' = [trace EXCEPT ![r] =
                                Append(@, LogEvent("Invalid IP specified"))]
                /\ pc' = [pc EXCEPT ![r] = "done"]
                /\ ip' = ip
           ELSE /\ ip' = [ip EXCEPT ![r] = res.ip]
                /\ pc' = [pc EXCEPT ![r] = "lookup"]
                /\ trace' = trace
    /\ UNCHANGED <<records, pushover, form, arrived, request, hostConfig, err, addErr,
                   idx, dns, now>>

\* A lookup that leaves an empty entry behind for a host it did not find.
LookupCreatesEntry(r) ==
    /\ pc[r] = "lookup"
    /\ LET res == LookupRecord(records, request[r].Host)
       IN  IF res.exists
           THEN /\ hostConfig' = [hostConfig EXCEPT ![r] = res.hostConfig]
                /\ pc' = [pc EXCEPT ![r] = "updatePrimary"]
                /\ trace' = trace
                /\ records' = records
           ELSE /\ trace' = [trace EXCEPT ![r] =
                                Append(@, LogEvent("Hostname not found in config, ignoring"))]
                /\ pc' = [pc EXCEPT ![r] = "done"]
                /\ hostConfig' = hostConfig
                /\ records' = [h \in DOMAIN records \cup {request[r].Host} |->
                                 IF h \in DOMAIN records THEN records[h]
                                 ELSE ZeroHostConfig]
    /\ UNCHANGED <<pushover, form, arrived, request, ip, err, addErr, idx, dns, now>>

\* ProcessIpChange, line 179 and its else branch.
Lookup(r) ==
    /\ pc[r] = "lookup"
    /\ LET res == LookupRecord(records, request[r].Host)
       IN  IF res.exists
           THEN /\ hostConfig' = [hostConfig EXCEPT ![r] = res.hostConfig]
                /\ pc' = [pc EXCEPT ![r] = "updatePrimary"]
                /\ trace' = trace
           ELSE /\ trace' = [trace EXCEPT ![r] =
                                Append(@, LogEvent("Hostname not found in config, ignoring"))]
                /\ pc' = [pc EXCEPT ![r] = "done"]
                /\ hostConfig' = hostConfig
    /\ UNCHANGED <<records, pushover, form, arrived, request, ip, err, addErr, idx,
                   dns, now>>

\* The primary update with err a variable all the requests share.
UpdatePrimarySharedErr(r) ==
    /\ pc[r] = "updatePrimary"
    /\ \E t \in now..MaxTime, e \in Route53Outcomes :
          /\ UpdateRoute53Record(r, hostConfig[r], request[r].Host, ip[r],
                                 request[r].Commit, t, e)
          /\ err' = [q \in Requests |-> e]
    /\ pc' = [pc EXCEPT ![r] = "notifyPrimary"]
    /\ UNCHANGED <<records, pushover, form, arrived, request, ip, hostConfig, addErr,
                   idx>>

\* ProcessIpChange, line 180.
UpdatePrimary(r) ==
    /\ pc[r] = "updatePrimary"
    /\ \E t \in now..MaxTime, e \in Route53Outcomes :
          /\ UpdateRoute53Record(r, hostConfig[r], request[r].Host, ip[r],
                                 request[r].Commit, t, e)
          /\ err' = [err EXCEPT ![r] = e]
    /\ pc' = [pc EXCEPT ![r] = "notifyPrimary"]
    /\ UNCHANGED <<records, pushover, form, arrived, request, ip, hostConfig, addErr,
                   idx>>

\* The primary's notification followed by the loop whatever the outcome.
NotifyPrimaryAlwaysFansOut(r) ==
    /\ pc[r] = "notifyPrimary"
    /\ \E sendErr \in PushoverOutcomes :
          NotifyPushover(r, pushover, request[r].Host, err[r], sendErr)
    /\ idx' = [idx EXCEPT ![r] = 1]
    /\ pc' = [pc EXCEPT ![r] = LoopHead(hostConfig[r], 1)]
    /\ UNCHANGED <<records, pushover, form, arrived, request, ip, hostConfig, err,
                   addErr, dns, now>>

\* The primary's notification with a failed send ending the request.
NotifyPrimaryPropagates(r) ==
    /\ pc[r] = "notifyPrimary"
    /\ \E sendErr \in PushoverOutcomes :
          /\ NotifyPushover(r, pushover, request[r].Host, err[r], sendErr)
          /\ IF err[r] # Nil /\ sendErr = Nil
             THEN /\ idx' = [idx EXCEPT ![r] = 1]
                  /\ pc' = [pc EXCEPT ![r] = LoopHead(hostConfig[r], 1)]
             ELSE /\ idx' = idx
                  /\ pc' = [pc EXCEPT ![r] = "done"]
    /\ UNCHANGED <<records, pushover, form, arrived, request, ip, hostConfig, err,
                   addErr, dns, now>>

\* The primary update tried again after the notification of its failure.
NotifyPrimaryRetriesPrimary(r) ==
    /\ pc[r] = "notifyPrimary"
    /\ \E sendErr \in PushoverOutcomes :
          NotifyPushover(r, pushover, request[r].Host, err[r], sendErr)
    /\ IF err[r] # Nil
       THEN /\ idx' = idx
            /\ pc' = [pc EXCEPT ![r] = "updatePrimary"]
       ELSE /\ idx' = idx
            /\ pc' = [pc EXCEPT ![r] = "done"]
    /\ UNCHANGED <<records, pushover, form, arrived, request, ip, hostConfig, err,
                   addErr, dns, now>>

\* ProcessIpChange, lines 181-184: the notification of the primary outcome,
\* then the loop is entered only if the primary update failed.
NotifyPrimary(r) ==
    /\ pc[r] = "notifyPrimary"
    /\ \E sendErr \in PushoverOutcomes :
          NotifyPushover(r, pushover, request[r].Host, err[r], sendErr)
    /\ IF err[r] # Nil
       THEN /\ idx' = [idx EXCEPT ![r] = 1]
            /\ pc' = [pc EXCEPT ![r] = LoopHead(hostConfig[r], 1)]
       ELSE /\ idx' = idx
            /\ pc' = [pc EXCEPT ![r] = "done"]
    /\ UNCHANGED <<records, pushover, form, arrived, request, ip, hostConfig, err,
                   addErr, dns, now>>

\* An additional host updated with its own entry of the records, if any.
UpdateAdditionalOwnConfig(r) ==
    /\ pc[r] = "updateAdditional"
    /\ \E t \in now..MaxTime, e \in Route53Outcomes :
          LET host == hostConfig[r].AdditionalHosts[idx[r]]
              own == LookupRecord(records, host)
          IN  /\ UpdateRoute53Record(r, IF own.exists THEN own.hostConfig
                                         ELSE hostConfig[r],
                                     host, ip[r], request[r].Commit, t, e)
              /\ addErr' = [addErr EXCEPT ![r] = e]
              /\ IF e # Nil
                 THEN /\ pc' = [pc EXCEPT ![r] = "notifyAdditional"]
                      /\ idx' = idx
                 ELSE /\ pc' = [pc EXCEPT ![r] = LoopHead(hostConfig[r], idx[r] + 1)]
                      /\ idx' = [idx EXCEPT ![r] = @ + 1]
    /\ UNCHANGED <<records, pushover, form, arrived, request, ip, hostConfig, err>>

\* An additional host notified whatever the outcome of its update.
UpdateAdditionalAlwaysNotifies(r) ==
    /\ pc[r] = "updateAdditional"
    /\ \E t \in now..MaxTime, e \in Route53Outcomes :
          /\ UpdateRoute53Record(r, hostConfig[r],
                                 hostConfig[r].AdditionalHosts[idx[r]], ip[r],
                                 request[r].Commit, t, e)
          /\ addErr' = [addErr EXCEPT ![r] = e]
    /\ pc' = [pc EXCEPT ![r] = "notifyAdditional"]
    /\ UNCHANGED <<records, pushover, form, arrived, request, ip, hostConfig, err, idx>>

\* A failed additional host left unnotified when another host follows.
UpdateAdditionalMovesOn(r) ==
    /\ pc[r] = "updateAdditional"
    /\ \E t \in now..MaxTime, e \in Route53Outcomes :
          /\ UpdateRoute53Record(r, hostConfig[r],
                                 hostConfig[r].AdditionalHosts[idx[r]], ip[r],
                                 request[r].Commit, t, e)
          /\ addErr' = [addErr EXCEPT ![r] = e]
          /\ IF e # Nil /\ idx[r] = Len(hostConfig[r].AdditionalHosts)
             THEN /\ pc' = [pc EXCEPT ![r] = "notifyAdditional"]
                  /\ idx' = idx
             ELSE /\ pc' = [pc EXCEPT ![r] = LoopHead(hostConfig[r], idx[r] + 1)]
                  /\ idx' = [idx EXCEPT ![r] = @ + 1]
    /\ UNCHANGED <<records, pushover, form, arrived, request, ip, hostConfig, err>>

\* ProcessIpChange, lines 185-187: one additional host.
UpdateAdditional(r) ==
    /\ pc[r] = "updateAdditional"
    /\ \E t \in now..MaxTime, e \in Route53Outcomes :
          /\ UpdateRoute53Record(r, hostConfig[r],
                                 hostConfig[r].AdditionalHosts[idx[r]], ip[r],
                                 request[r].Commit, t, e)
          /\ addErr' = [addErr EXCEPT ![r] = e]
          /\ IF e # Nil
             THEN /\ pc' = [pc EXCEPT ![r] = "notifyAdditional"]
                  /\ idx' = idx
             ELSE /\ pc' = [pc EXCEPT ![r] = LoopHead(hostConfig[r], idx[r] + 1)]
                  /\ idx' = [idx EXCEPT ![r] = @ + 1]
    /\ UNCHANGED <<records, pushover, form, arrived, request, ip, hostConfig, err>>

\* A failed additional host ending the loop.
NotifyAdditionalAborts(r) ==
    /\ pc[r] = "notifyAdditional"
    /\ \E sendErr \in PushoverOutcomes :
          NotifyPushover(r, pushover, hostConfig[r].AdditionalHosts[idx[r]],
                         addErr[r], sendErr)
    /\ pc' = [pc EXCEPT ![r] = "done"]
    /\ idx' = idx
    /\ UNCHANGED <<records, pushover, form, arrived, request, ip, hostConfig, err,
                   addErr, dns, now>>

\* A failed additional host tried again.
NotifyAdditionalRetries(r) ==
    /\ pc[r] = "notifyAdditional"
    /\ \E sendErr \in PushoverOutcomes :
          NotifyPushover(r, pushover, hostConfig[r].AdditionalHosts[idx[r]],
                         addErr[r], sendErr)
    /\ pc' = [pc EXCEPT ![r] = "updateAdditional"]
    /\ idx' = idx
    /\ UNCHANGED <<records, pushover, form, arrived, request, ip, hostConfig, err,
                   addErr, dns, now>>

\* ProcessIpChange, line 188, and on to the next additional host.
NotifyAdditional(r) ==
    /\ pc[r] = "notifyAdditional"
    /\ \E sendErr \in PushoverOutcomes :
          NotifyPushover(r, pushover, hostConfig[r].AdditionalHosts[idx[r]],
                         addErr[r], sendErr)
    /\ pc' = [pc EXCEPT ![r] = LoopHead(hostConfig[r], idx[r] + 1)]
    /\ idx' = [idx EXCEPT ![r] = @ + 1]
    /\ UNCHANGED <<records, pushover, form, arrived, request, ip, hostConfig, err,
                   addErr, dns, now>>

Next ==
    \E r \in Requests :
        \/ Handle(r)
        \/ ValidateIp(r)
        \/ Lookup(r)
        \/ UpdatePrimary(r)
        \/ NotifyPrimary(r)
        \/ UpdateAdditional(r)
        \/ NotifyAdditional(r)

Spec == Init /\ [][Next]_vars

(***************************************************************************)
(* One request whose handler keeps running: its goroutine is scheduled,    *)
(* and every call of Route53 and every send of a notification returns.     *)
(***************************************************************************)
\* The forms of the call: a configured or an unknown host; a valid address,
\* an invalid one or an IPv4-mapped one; commit absent, false or unparsable.
FairForms ==
    [hostname : {"home", "nas"},
     ip : {<<"1", ".", "2", ".", "3", ".", "4">>,
           <<>>,
           <<":", ":", "f", "f", "f", "f", ":", "1", ".", "2", ".", "3", ".", "4">>},
     commit : {<<>>, <<"false">>, <<"yes">>}]

\* The additional hosts of "home" are drawn from "nas" and "home" itself.
InitFair ==
    /\ InitService
    /\ \A k \in DOMAIN records["home"].AdditionalHosts :
          records["home"].AdditionalHosts[k] \in {"nas", "home"}
    /\ form \in [{1} -> FairForms]
    /\ InitRequests({1})

SpecFair == InitFair /\ [][Next]_vars /\ WF_vars(Next)

(***************************************************************************)
(* Two inbound calls in flight at once: net/http runs each handler in a    *)
(* goroutine of its own, and the handlers share appConfig, the Route53     *)
(* client and the clock.  The steps are those of Next, interleaved.        *)
(***************************************************************************)
\* The forms of the two calls: a configured or an unknown host, one of two
\* valid addresses or an invalid one, committing by default.  Pushover is
\* left without API token: a notification is then the invocation of
\* NotifyPushover alone, and what interleaves are the Route53 calls.
ConcurrentForms ==
    [hostname : {"home", "nas"},
     ip : {<<"1", ".", "2", ".", "3", ".", "4">>,
           <<"2", "0", "3", ".", "0", ".", "1", "1", "3", ".", "5">>,
           <<>>},
     commit : {<<>>}]

InitConcurrent ==
    /\ InitService
    /\ Len(records["home"].AdditionalHosts) <= MaxAdditionalConcurrent
    /\ pushover.ApiToken = ""
    /\ form \in [{1, 2} -> ConcurrentForms]
    /\ InitRequests({1, 2})

SpecConcurrent == InitConcurrent /\ [][Next]_vars

(***************************************************************************)
(* What is observed of a request.                                          *)
(***************************************************************************)
EventsOf(r, kind) == SelectSeq(trace[r], LAMBDA ev : ev.kind = kind)

\* The change payloads built (MakeChangeRequest, logged at line 153).
Builds(r) == EventsOf(r, "build")

\* The invocations of client.ChangeResourceRecordSets.
Calls(r) == EventsOf(r, "call")

\* The invocations of NotifyPushover.
Notifies(r) == EventsOf(r, "notify")

\* The messages handed to app.SendMessage.
Sends(r) == EventsOf(r, "send")

\* The record name a change payload is for.
NameOf(input) == input.Changes[1].Name

\* The ip parameter of r passes net.ParseIP(..).To4().
ValidIp(r) == To4(ParseIP(form[r].ip)) # NoIP

\* The hostname parameter of r is a key of appConfig.Records.
KnownHost(r) == form[r].hostname \in DOMAIN records

\* The primary update of r was sent and Route53 refused it.
PrimaryFailed(r) == Calls(r) # <<>> /\ Calls(r)[1].err # Nil

NoRemoteEffect(r) ==
    /\ Builds(r) = <<>>
    /\ Calls(r) = <<>>
    /\ Notifies(r) = <<>>
    /\ Sends(r) = <<>>

(***************************************************************************)
(* Claims.                                                                 *)
(***************************************************************************)
\* C1: a request whose ip fails validation builds no change, makes no
\* Route53 call and notifies nobody, and stops right after validation; a
\* change payload exists only once validateIp has produced the 4-byte ip.
C1_InvalidIpHasNoEffect ==
    \A r \in Requests :
        /\ ~ValidIp(r) =>
              /\ NoRemoteEffect(r)
              /\ pc[r] \in {"start", "validateIp", "done"}
        /\ Builds(r) # <<>> =>
              /\ ip[r] # NoIP
              /\ ip[r] = To4(ParseIP(request[r].IP))

\* C1 witness: a request for a configured host, committing, with an invalid
\* ip has run to its end with nothing but the error logged.
C1_Witness ==
    \E r \in Requests :
        /\ pc[r] = "done"
        /\ ~ValidIp(r)
        /\ KnownHost(r)
        /\ request[r].Commit
        /\ trace[r] = <<LogEvent("Invalid IP specified")>>

\* C2: a request with a valid ip whose host is not a key of the records
\* (exact match) builds nothing, calls nothing and notifies nobody, whatever
\* the commit flag and whether or not some entry lists the host as an
\* additional host.
C2_UnknownHostHasNoEffect ==
    \A r \in Requests :
        (ValidIp(r) /\ ~KnownHost(r)) =>
            /\ NoRemoteEffect(r)
            /\ pc[r] \in {"start", "validateIp", "lookup", "done"}

\* C2 witness: a committing request with a valid ip for a host that is only
\* listed as an additional host has run to its end with nothing but the log.
C2_Witness ==
    \E r \in Requests :
        /\ pc[r] = "done"
        /\ ValidIp(r)
        /\ ~KnownHost(r)
        /\ request[r].Commit
        /\ \E k \in DOMAIN records :
              \E j \in 1..Len(records[k].AdditionalHosts) :
                 records[k].AdditionalHosts[j] = form[r].hostname
        /\ trace[r] = <<LogEvent("Hostname not found in config, ignoring")>>

\* C3: the additional hosts are processed if and only if the primary update
\* failed.  When it did not fail there is one change built, at most the
\* primary's call, and exactly one notification once the request is over:
\* the primary's, without error.  When it failed every request that is over
\* has gone on to the additional hosts.
C3_FanOutIffPrimaryFailed ==
    \A r \in Requests :
        Builds(r) # <<>> =>
            /\ ~PrimaryFailed(r) =>
                  /\ Len(Builds(r)) = 1
                  /\ Len(Calls(r)) <= 1
                  /\ \A k \in 1..Len(Calls(r)) :
                        NameOf(Calls(r)[k].input) = request[r].Host \o "."
                  /\ Len(Notifies(r)) <= 1
                  /\ pc[r] = "done" =>
                        Notifies(r) = <<NotifyEvent(request[r].Host, Nil)>>
            /\ Len(Builds(r)) > 1 => PrimaryFailed(r)
            /\ (PrimaryFailed(r) /\ pc[r] = "done") =>
                  Len(Builds(r)) = 1 + Len(hostConfig[r].AdditionalHosts)

\* C3 witness: a request whose primary update was sent and accepted is over,
\* its host has additional hosts, and one notification was issued.
C3_Witness ==
    \E r \in Requests :
        /\ pc[r] = "done"
        /\ Len(Calls(r)) = 1
        /\ ~PrimaryFailed(r)
        /\ Len(hostConfig[r].AdditionalHosts) >= 1
        /\ Len(Notifies(r)) = 1

\* C4: after the primary's call, the k-th call of a request is for the k-th
\* entry of the primary's additionalHosts, and a request whose primary
\* update failed ends with one call for every entry, whatever the outcomes
\* of the earlier ones.
C4_FanOutInConfiguredOrder ==
    \A r \in Requests :
        LET calls == Calls(r)
            adds == hostConfig[r].AdditionalHosts
        IN  /\ \A k \in 2..Len(calls) :
                  /\ k - 1 <= Len(adds)
                  /\ NameOf(calls[k].input) = adds[k - 1] \o "."
            /\ (PrimaryFailed(r) /\ pc[r] = "done") =>
                  Len(calls) = 1 + Len(adds)

\* C4 witness: a request is over whose primary failed, whose first
\* additional host failed too and whose second, another host, was updated.
C4_Witness ==
    \E r \in Requests :
        /\ pc[r] = "done"
        /\ PrimaryFailed(r)
        /\ Len(hostConfig[r].AdditionalHosts) >= 2
        /\ hostConfig[r].AdditionalHosts[1] # hostConfig[r].AdditionalHosts[2]
        /\ Len(Calls(r)) >= 3
        /\ Calls(r)[2].err # Nil
        /\ Calls(r)[3].err = Nil

\* C5: a request with commit=false never reaches Route53; when its ip is
\* valid and its host configured it ends with exactly one change built, the
\* primary's, for the configured zone.
C5_DryRunMakesNoCall ==
    \A r \in Requests :
        (pc[r] # "start" /\ ~request[r].Commit) =>
            /\ Calls(r) = <<>>
            /\ (pc[r] = "done" /\ ValidIp(r) /\ KnownHost(r)) =>
                  /\ Len(Builds(r)) = 1
                  /\ NameOf(Builds(r)[1].input) = request[r].Host \o "."
                  /\ Builds(r)[1].input.HostedZoneId
                        = records[request[r].Host].ZoneId

\* C5 witness: a request that said commit=false, with a valid ip and a
\* configured host, is over and its change was built.
C5_Witness ==
    \E r \in Requests :
        /\ pc[r] = "done"
        /\ form[r].commit = <<"false">>
        /\ ValidIp(r)
        /\ KnownHost(r)
        /\ Len(Builds(r)) = 1

\* How many calls of r were for the record name of host h.
CallsFor(r, h) ==
    Cardinality({k \in 1..Len(Calls(r)) : NameOf(Calls(r)[k].input) = h \o "."})

\* How many entries of the list adds name host h.
Occurrences(adds, h) == Cardinality({k \in 1..Len(adds) : adds[k] = h})

\* C6, as claimed: within one request no hostname is the target of two
\* Route53 calls, whatever the configuration.
C6_AtMostOneAttemptPerHostname ==
    \A r \in Requests :
        \A i, j \in 1..Len(Calls(r)) :
            NameOf(Calls(r)[i].input) = NameOf(Calls(r)[j].input) => i = j

\* C6, amended: within one request a hostname is the target of at most one
\* call for the primary attempt (if it is the requested host) plus one call
\* per entry of additionalHosts that names it, so no attempt is repeated
\* and a request makes at most 1 + len(additionalHosts) calls.
C6_AtMostOneAttemptPerEntry ==
    \A r \in Requests :
        LET adds == hostConfig[r].AdditionalHosts
        IN  /\ Len(Calls(r)) <= 1 + Len(adds)
            /\ \A h \in ConfigHosts \cup HostInputs :
                  CallsFor(r, h) <= (IF h = request[r].Host THEN 1 ELSE 0)
                                    + Occurrences(adds, h)

\* C6 witness: a request is over whose primary failed and whose host is
\* listed among its own additional hosts: it was the target of two calls.
C6_Witness ==
    \E r \in Requests :
        /\ pc[r] = "done"
        /\ PrimaryFailed(r)
        /\ Occurrences(hostConfig[r].AdditionalHosts, request[r].Host) = 1
        /\ CallsFor(r, request[r].Host) = 2

RECURSIVE FailureNotifies(_, _, _)
\* The notifications due for the calls from the k-th on: one for every
\* failed call, naming the additional host the call was for.
FailureNotifies(calls, adds, k) ==
    IF k > Len(calls) \/ k - 1 > Len(adds) THEN <<>>
    ELSE (IF calls[k].err # Nil
          THEN <<NotifyEvent(adds[k - 1], calls[k].err)>>
          ELSE <<>>)
         \o FailureNotifies(calls, adds, k + 1)

\* The error of the primary update as Route53 gave it: nil without a call.
PrimaryOutcome(r) == IF Calls(r) = <<>> THEN Nil ELSE Calls(r)[1].err

\* C7: a request that reached the update of its primary host and is over
\* has issued exactly: one notification for the primary host with the
\* primary's outcome, then one notification per additional host whose
\* update failed, naming that host and carrying its error.  An additional
\* host's notification never reports a success.
C7_NotificationsIssued ==
    \A r \in Requests :
        /\ (Builds(r) # <<>> /\ pc[r] = "done") =>
              Notifies(r)
                 = <<NotifyEvent(request[r].Host, PrimaryOutcome(r))>>
                   \o FailureNotifies(Calls(r), hostConfig[r].AdditionalHosts, 2)
        /\ \A k \in 2..Len(Notifies(r)) : Notifies(r)[k].err # Nil

\* C7 witness: a request is over whose primary failed, with one additional
\* host that failed and one that was updated: two notifications, three calls.
C7_Witness ==
    \E r \in Requests :
        /\ pc[r] = "done"
        /\ PrimaryFailed(r)
        /\ Len(Calls(r)) = 3
        /\ \E k \in 2..3 : Calls(r)[k].err = Nil
        /\ Len(Notifies(r)) = 2

\* C8, as claimed: validation accepts the ip parameter if and only if it is
\* a dotted-decimal IPv4 literal.
C8_OnlyDottedDecimalAccepted ==
    \A r \in Requests :
        pc[r] \notin {"start", "validateIp"} =>
            (ip[r] # NoIP <=> parseIPv4(form[r].ip) # NoIP)

\* C9, as claimed: an absent commit parameter gives Commit = true, and a
\* present one that does not parse as a boolean gives no UpdateRequest.
C9_CommitDefaultsTrueElseMustParse ==
    \A r \in Requests :
        pc[r] # "start" =>
            /\ form[r].commit = <<>> => request[r].Commit
            /\ (form[r].commit # <<>> /\ ParseBool(form[r].commit[1]).err # Nil) =>
                  /\ request[r] = ZeroRequest
                  /\ trace[r] = <<>>

\* The calls and the invocations of NotifyPushover of r in program order,
\* each with the record name it is about and the update error it carries.
Observed(r) ==
    LET evs == SelectSeq(trace[r], LAMBDA ev : ev.kind \in {"call", "notify"})
    IN  [k \in 1..Len(evs) |->
            IF evs[k].kind = "call"
            THEN <<"call", NameOf(evs[k].input), evs[k].err>>
            ELSE <<"notify", evs[k].host \o ".", evs[k].err>>]

RECURSIVE ExpectedFanOut(_, _)
\* The calls and notifications for the additional hosts adds when Route53
\* answers outs, call by call (nil beyond the answers given).
ExpectedFanOut(adds, outs) ==
    IF adds = <<>> THEN <<>>
    ELSE LET o == IF outs = <<>> THEN Nil ELSE Head(outs)
             rest == IF outs = <<>> THEN <<>> ELSE Tail(outs)
         IN  <<<<"call", Head(adds) \o ".", o>>>>
             \o (IF o # Nil THEN <<<<"notify", Head(adds) \o ".", o>>>> ELSE <<>>)
             \o ExpectedFanOut(Tail(adds), rest)

\* What a finished request must have called and notified, as a function of
\* the request, the configuration and the answers of Route53 alone.
ExpectedObserved(r) ==
    LET host == form[r].hostname \o "."
        outs == [k \in 1..Len(Calls(r)) |-> Calls(r)[k].err]
        o1 == IF outs = <<>> THEN Nil ELSE outs[1]
    IN  IF ~ValidIp(r) \/ ~KnownHost(r) THEN <<>>
        ELSE IF ~request[r].Commit THEN <<<<"notify", host, Nil>>>>
        ELSE <<<<"call", host, o1>>, <<"notify", host, o1>>>>
             \o (IF o1 # Nil
                 THEN ExpectedFanOut(records[form[r].hostname].AdditionalHosts,
                                     IF outs = <<>> THEN <<>> ELSE Tail(outs))
                 ELSE <<>>)

\* C10: the calls and notifications of a finished request are determined by
\* the request, the configuration and the answers of Route53: whether the
\* sends of its notifications succeeded or failed changes nothing, and a
\* request whose send failed still runs to its normal end.
C10_SendOutcomeChangesNothing ==
    \A r \in Requests :
        pc[r] = "done" => Observed(r) = ExpectedObserved(r)

\* C10 witness: a request is over in which the send of the primary's failure
\* notification failed and the additional hosts were updated and notified
\* all the same.
C10_Witness ==
    \E r \in Requests :
        /\ pc[r] = "done"
        /\ PrimaryFailed(r)
        /\ Len(Sends(r)) >= 2
        /\ Sends(r)[1].err # Nil
        /\ Len(Calls(r)) = 1 + Len(hostConfig[r].AdditionalHosts)
        /\ Len(Calls(r)) >= 2

\* Request r has just had Route53 accept a change: the change.
JustSent(r) ==
    /\ Len(trace'[r]) = Len(trace[r]) + 2
    /\ trace'[r][Len(trace'[r])].kind = "call"
    /\ trace'[r][Len(trace'[r])].err = Nil

LastInput(r) == trace'[r][Len(trace'[r])].input

\* Change b was built for the zone, host, ip and ttl change a was built for.
SameParameters(a, b) ==
    /\ a.HostedZoneId = b.HostedZoneId
    /\ a.Changes[1] = b.Changes[1]
    /\ a.Changes[2].Name = b.Changes[2].Name
    /\ a.Changes[2].TTL = b.Changes[2].TTL

\* An accepted change of r, built for the parameters of input, is what the
\* record sets of its name hold now: Route53 is in the state the first of
\* two sends left.
FirstSendStands(r, input) ==
    \E k \in 1..Len(Calls(r)) :
        /\ Calls(r)[k].err = Nil
        /\ SameParameters(Calls(r)[k].input, input)
        /\ ApplyChanges(dns, Calls(r)[k].input) = dns

\* C11, as claimed: sending a second change built for the same zone, host,
\* ip and ttl leaves every record set as the first send left it.
C11_SecondSendChangesNothing ==
    [][\A r \in Requests :
          (JustSent(r) /\ FirstSendStands(r, LastInput(r))) => dns' = dns]_vars

\* C11, amended: the second send leaves the A record, and every record set
\* but the TXT record of that name, as the first send left them; the TXT
\* record keeps its TTL and holds the timestamp of the second build, so the
\* whole state is unchanged exactly when the two builds read the same time.
C11_SecondSendKeepsARecord ==
    [][\A r \in Requests :
          (JustSent(r) /\ FirstSendStands(r, LastInput(r))) =>
              LET input == LastInput(r)
                  txt == RecordKey(input, input.Changes[2])
              IN  /\ DOMAIN dns' = DOMAIN dns
                  /\ \A key \in DOMAIN dns : key # txt => dns'[key] = dns[key]
                  /\ RecordKey(input, input.Changes[1]) # txt
                  /\ dns'[txt].TTL = dns[txt].TTL
                  /\ dns'[txt].ResourceRecords = input.Changes[2].ResourceRecords
                  /\ (dns' = dns <=> dns[txt].ResourceRecords
                                       = input.Changes[2].ResourceRecords)]_vars

\* C11 witness: two changes built for the same parameters at different times
\* were both accepted, and the TXT record holds the second timestamp.
C11_Witness ==
    \E r \in Requests :
        \E i, j \in 1..Len(Calls(r)) :
            /\ i < j
            /\ Calls(r)[i].err = Nil
            /\ Calls(r)[j].err = Nil
            /\ SameParameters(Calls(r)[i].input, Calls(r)[j].input)
            /\ Calls(r)[i].input.Changes[2].ResourceRecords
                  # Calls(r)[j].input.Changes[2].ResourceRecords
            /\ dns[RecordKey(Calls(r)[j].input, Calls(r)[j].input.Changes[2])].ResourceRecords
                  = Calls(r)[j].input.Changes[2].ResourceRecords

\* One of the Pushover credentials is empty.
CredentialMissing == pushover.ApiToken = "" \/ pushover.RecipientKey = ""

\* C12: with an empty API token or an empty recipient key no message is ever
\* handed to the transport: every invocation of NotifyPushover only logs
\* that notification is not configured, and a finished request has made the
\* calls and invocations it makes with credentials configured.
C12_NoSendWithoutCredentials ==
    CredentialMissing =>
        \A r \in Requests :
            /\ Sends(r) = <<>>
            /\ \A k \in 1..Len(trace[r]) :
                  trace[r][k].kind = "notify" =>
                      /\ k < Len(trace[r])
                      /\ trace[r][k + 1]
                            = LogEvent("Pushover notification not configured.")
            /\ pc[r] = "done" => Observed(r) = ExpectedObserved(r)

\* C12 witness: with a credential empty a request is over whose primary
\* and an additional host failed: two invocations, nothing sent, and every
\* additional host was called.
C12_Witness ==
    /\ CredentialMissing
    /\ \E r \in Requests :
          /\ pc[r] = "done"
          /\ PrimaryFailed(r)
          /\ Len(Notifies(r)) >= 2
          /\ Sends(r) = <<>>
          /\ Len(Calls(r)) = 1 + Len(hostConfig[r].AdditionalHosts)

\* C13: every change built after the primary's is for the entry of the
\* primary's additionalHosts at its position, under that host's own name,
\* with the zone and TTL of the primary's HostConfig (whatever entry the
\* additional host may have itself), the A value of the primary's change,
\* which is the validated ip, and is sent as the request's commit flag says.
C13_AdditionalChangeUsesPrimaryConfig ==
    \A r \in Requests :
        \A k \in 2..Len(Builds(r)) :
            LET input == Builds(r)[k].input
                primary == records[request[r].Host]
            IN  /\ k - 1 <= Len(primary.AdditionalHosts)
                /\ input.Changes[1].Name = primary.AdditionalHosts[k - 1] \o "."
                /\ input.Changes[2].Name = primary.AdditionalHosts[k - 1] \o "."
                /\ input.HostedZoneId = primary.ZoneId
                /\ input.Changes[1].TTL = primary.Ttl
                /\ input.Changes[2].TTL = primary.Ttl
                /\ input.Changes[1].ResourceRecords = <<IPString(ip[r])>>
                /\ input.Changes[1].ResourceRecords
                      = Builds(r)[1].input.Changes[1].ResourceRecords
                /\ request[r].Commit
                /\ Len(Calls(r)) >= k
                /\ Calls(r)[k].input = input

\* C13 witness: a change was sent for an additional host that has an entry
\* of its own in the records, with another zone and another TTL.
C13_Witness ==
    \E r \in Requests :
        \E k \in 2..Len(Calls(r)) :
            LET host == hostConfig[r].AdditionalHosts[k - 1]
            IN  /\ host \in DOMAIN records
                /\ host # request[r].Host
                /\ records[host].ZoneId # hostConfig[r].ZoneId
                /\ records[host].Ttl # hostConfig[r].Ttl
                /\ NameOf(Calls(r)[k].input) = host \o "."
                /\ Calls(r)[k].err = Nil

\* The hostname the k-th change of r is built for.
BuiltFor(r, k) ==
    IF k = 1 THEN request[r].Host
    ELSE records[request[r].Host].AdditionalHosts[k - 1]

\* C14: every change built has exactly two operations, both upserts, an A
\* record then a TXT record, both named the hostname with one dot appended
\* and both with the TTL of the primary's HostConfig; the zone is that
\* HostConfig's zoneId; the A record has one value, the dotted-decimal form
\* of the validated ip, which is the ip parameter itself when that was
\* dotted-decimal.
C14_ChangeShape ==
    \A r \in Requests :
        \A k \in 1..Len(Builds(r)) :
            LET input == Builds(r)[k].input
                primary == records[request[r].Host]
                name == BuiltFor(r, k) \o "."
            IN  /\ Len(input.Changes) = 2
                /\ \A c \in 1..2 :
                      /\ input.Changes[c].Action = "UPSERT"
                      /\ input.Changes[c].Name = name
                      /\ input.Changes[c].TTL = primary.Ttl
                      /\ Len(input.Changes[c].ResourceRecords) = 1
                /\ input.Changes[1].Type = "A"
                /\ input.Changes[2].Type = "TXT"
                /\ input.HostedZoneId = primary.ZoneId
                /\ input.Changes[1].ResourceRecords = <<IPString(ip[r])>>
                /\ parseIPv4(form[r].ip) # NoIP =>
                      input.Changes[1].ResourceRecords = <<Join(form[r].ip)>>

\* C14 witness: a request whose ip was given in dotted-decimal form has had
\* a change built for its primary host and one for an additional host.
C14_Witness ==
    \E r \in Requests :
        /\ Len(Builds(r)) >= 2
        /\ parseIPv4(form[r].ip) # NoIP
        /\ BuiltFor(r, 2) # BuiltFor(r, 1)

\* C15: no step of any request, in any interleaving of two requests,
\* changes appConfig: the records keep their keys and every HostConfig its
\* zoneId, ttl and additionalHosts, and the Pushover credentials stay; the
\* HostConfig a request works with is the entry of its host.
C15_ConfigNeverChanges ==
    [][/\ records' = records
       /\ pushover' = pushover
       /\ \A r \in Requests :
             hostConfig'[r] # ZeroHostConfig =>
                 hostConfig'[r] = records[request[r].Host]]_vars

\* C15 witness: of two requests that are over, one was for an unknown host
\* and the other went through its additional hosts; the unknown host is
\* still no key of the records.
C15_Witness ==
    \E r1, r2 \in Requests :
        /\ r1 # r2
        /\ pc[r1] = "done" /\ pc[r2] = "done"
        /\ trace[r1] = <<LogEvent("Hostname not found in config, ignoring")>>
        /\ form[r1].hostname \notin DOMAIN records
        /\ PrimaryFailed(r2)
        /\ Len(Calls(r2)) >= 2

\* The accepted calls of request r.
AcceptedCalls(r) == SelectSeq(Calls(r), LAMBDA ev : ev.err = Nil)

\* The A and TXT record sets named name in zone are those one accepted call
\* of r wrote.
WrittenBy(r, zone, name) ==
    \E k \in 1..Len(AcceptedCalls(r)) :
        LET input == AcceptedCalls(r)[k].input
        IN  /\ input.HostedZoneId = zone
            /\ NameOf(input) = name
            /\ \A j \in 1..Len(input.Changes) :
                  LET c == input.Changes[j]
                  IN  /\ RecordKey(input, c) \in DOMAIN dns
                      /\ dns[RecordKey(input, c)]
                            = [TTL |-> c.TTL, ResourceRecords |-> c.ResourceRecords]

\* C16: with two requests in flight nothing orders their calls, and nothing
\* of one request leaks into the other: the calls and notifications of each
\* finished request are those it makes alone under the same answers of
\* Route53, and every record name at Route53 holds what one accepted call
\* of one of the requests wrote, whichever came last there.
C16_RequestsRunIndependently ==
    /\ \A r \in Requests :
          pc[r] = "done" => Observed(r) = ExpectedObserved(r)
    /\ \A key \in DOMAIN dns :
          \E r \in Requests : WrittenBy(r, key[1], key[2])

\* C16 witness: two committed requests for the same configured host with
\* different valid ips are over, Route53 accepted the primary call of both,
\* and the record holds the ip of the request that arrived first: the calls
\* reached Route53 in the order opposite to the arrivals.
C16_Witness ==
    \E r1, r2 \in Requests :
        /\ arrived = <<r1, r2>>
        /\ pc[r1] = "done" /\ pc[r2] = "done"
        /\ form[r1].hostname = form[r2].hostname
        /\ KnownHost(r1)
        /\ request[r1].Commit /\ request[r2].Commit
        /\ ip[r1] # NoIP /\ ip[r2] # NoIP
        /\ IPString(ip[r1]) # IPString(ip[r2])
        /\ Len(AcceptedCalls(r1)) = 1 /\ Len(AcceptedCalls(r2)) = 1
        /\ dns[<<hostConfig[r1].ZoneId, form[r1].hostname \o ".", "A">>].ResourceRecords
              = <<IPString(ip[r1])>>

\* C17: when every call of Route53 and every send returns, a request that
\* has entered ProcessIpChange comes to its end, and at no time has it made
\* more than 1 + len(additionalHosts) calls of Route53 or more than
\* 1 + len(additionalHosts) notifications, additionalHosts being that of the
\* host it looked up.
C17_CompletesWithinBounds ==
    /\ \A r \in {1} : (pc[r] = "validateIp") ~> (pc[r] = "done")
    /\ [](\A r \in {1} :
             /\ Len(Calls(r)) <= 1 + Len(hostConfig[r].AdditionalHosts)
             /\ Len(Notifies(r)) <= 1 + Len(hostConfig[r].AdditionalHosts))

\* C17 witness: a request is over that met both limits: the primary and
\* each of its two or more additional hosts failed and were notified.
C17_Witness ==
    \E r \in Requests :
        /\ pc[r] = "done"
        /\ Len(hostConfig[r].AdditionalHosts) >= 2
        /\ Len(Calls(r)) = 1 + Len(hostConfig[r].AdditionalHosts)
        /\ Len(Notifies(r)) = 1 + Len(hostConfig[r].AdditionalHosts)

\* Where in trace[r] the n-th event of a kind stands.
PosOf(r, kind, n) ==
    CHOOSE i \in 1..Len(trace[r]) :
        /\ trace[r][i].kind = kind
        /\ Cardinality({j \in 1..i : trace[r][j].kind = kind}) = n

\* C18: in the trace of a request the first notification is the primary's:
\* it stands after the primary's change was built and, when sent, answered,
\* it carries that answer, and it stands before the change of the first
\* additional host is built; and when the call for an additional host
\* failed and another host follows, the notification of that failure stands
\* between the failed call and the building of the next change.
C18_NotificationsInOrder ==
    \A r \in Requests :
        /\ Len(Builds(r)) >= 2 => Len(Notifies(r)) >= 1
        /\ Len(Notifies(r)) >= 1 =>
              /\ Len(Builds(r)) >= 1
              /\ PosOf(r, "build", 1) < PosOf(r, "notify", 1)
              /\ Notifies(r)[1].host = request[r].Host
              /\ request[r].Commit =>
                    /\ Len(Calls(r)) >= 1
                    /\ PosOf(r, "call", 1) < PosOf(r, "notify", 1)
                    /\ Notifies(r)[1].err = Calls(r)[1].err
              /\ Len(Builds(r)) >= 2 =>
                    PosOf(r, "notify", 1) < PosOf(r, "build", 2)
        /\ \A k \in 2..Len(Calls(r)) :
              (Calls(r)[k].err # Nil /\ Len(Builds(r)) > k) =>
                  \E i \in (PosOf(r, "call", k) + 1)..(PosOf(r, "build", k + 1) - 1) :
                      /\ trace[r][i].kind = "notify"
                      /\ trace[r][i].host \o "." = NameOf(Calls(r)[k].input)
                      /\ trace[r][i].err = Calls(r)[k].err

\* C18 witness: the primary failed, the first additional host failed too and
\* a second additional host was attempted after it.
C18_Witness ==
    \E r \in Requests :
        /\ pc[r] = "done"
        /\ PrimaryFailed(r)
        /\ Len(Calls(r)) >= 3
        /\ Calls(r)[2].err # Nil
        /\ Len(Notifies(r)) >= 2
        /\ PosOf(r, "notify", 2) < PosOf(r, "build", 3)

\* C19: a request with a valid ip for a configured host whose commit flag is
\* false takes the primary outcome for a success: its err is nil, Route53
\* holds nothing of it, it never builds a second change nor notifies twice,
\* and at its end it has notified exactly once, for the primary host and
\* with no error, the message sent (if any) being the success message.
C19_DryRunIsTreatedAsSuccess ==
    \A r \in Requests :
        (ValidIp(r) /\ KnownHost(r) /\ pc[r] # "start" /\ ~request[r].Commit) =>
            /\ err[r] = Nil
            /\ DOMAIN dns = {}
            /\ Len(Builds(r)) <= 1
            /\ Len(Notifies(r)) <= 1
            /\ pc[r] \notin {"updateAdditional", "notifyAdditional"}
            /\ pc[r] = "done" =>
                  /\ Notifies(r) = <<NotifyEvent(request[r].Host, Nil)>>
                  /\ \A k \in 1..Len(Sends(r)) :
                        Sends(r)[k].message
                           = [Message |-> "IP Updated for: " \o request[r].Host,
                              Priority |-> PriorityNormal]

\* C19 witness: a dry run for a host that has additional hosts is over, and
\* its one notification, a success, was sent.
C19_Witness ==
    \E r \in Requests :
        /\ pc[r] = "done"
        /\ form[r].commit = <<"false">>
        /\ ValidIp(r) /\ KnownHost(r)
        /\ Len(hostConfig[r].AdditionalHosts) >= 1
        /\ Len(Notifies(r)) = 1
        /\ Len(Sends(r)) = 1
        /\ Builds(r)[1].input.Changes[1].ResourceRecords = <<IPString(ip[r])>>

=============================================================================
